---- MODULE Spec2Model ----
(***************************************************************************)
(* Review analysis pipeline (app/services/analysis.py), sentiment          *)
(* classifier (app/services/nlp/sentiment.py) and Celery batch task        *)
(* (app/workers/tasks.py).                                                 *)
(*                                                                         *)
(* Real numbers are kept in tenths: 0.1 is 1, 0.5 is 5, 1.0 is 10.         *)
(***************************************************************************)
EXTENDS Integers, Sequences, FiniteSets, TLC

VARIABLES
    cfg,        \* the SentimentAnalyzer after construction: use_transformers, fallback
    reviews,    \* committed rows of table "reviews", by id
    results,    \* committed rows of table "analysis_results", in insertion order
    call,       \* per caller: the position of its analyze_and_save coroutine and its session
    task,       \* the Celery task analyze_review_batch: request, loop position and result dict
    db_down,    \* review ids for which the database refuses every statement
    sa_in,      \* arguments and environment of the last direct SentimentAnalyzer.analyze call
    sa_out,     \* what that call returned
    batch,      \* ReviewAnalyzer.analyze_batch: its list, loop position and outcome
    ax_in,      \* arguments and environment of the last AspectExtractor.extract_aspects call
    ax_out,     \* what that call returned
    api         \* the HTTP application: requests of the current window and the last response

vars == <<cfg, reviews, results, call, task, db_down, sa_in, sa_out, batch, ax_in, ax_out, api>>

-----------------------------------------------------------------------------
(* Bounds of the model *)

\* most rows of analysis_results
MaxResults == 2
\* longest review_ids list given to the batch task
MaxBatchLen == 3

\* matches found in one text
MaxMatches == 2

\* requests sent by one client in one window
MaxRequests == 105

(* Program constants, in tenths *)

\* 1.0 in min(1.0, ...)
One == 10
\* +0.5 of the fallback confidence, and the neutral confidence 0.5
Half == 5
\* polarity threshold 0.1
Threshold == 1
\* non-neutral 'neutral' score 0.2
NeutralLow == 2
\* default scores 0.3 and 0.4
DefaultSide == 3
DefaultMid == 4
\* @celery_app.task(max_retries=3)
max_retries == 3

\* settings.API_RATE_LIMIT
API_RATE_LIMIT == 100

-----------------------------------------------------------------------------
(* Values *)

ReviewIds == {1, 2, 3}
Callers == {"a", "b"}
Labels == <<"negative", "neutral", "positive">>
Sentiments == {"negative", "neutral", "positive"}
None == "None"

Min(a, b) == IF a < b THEN a ELSE b
Max(a, b) == IF a > b THEN a ELSE b
Abs(a) == IF a < 0 THEN -a ELSE a

\* softmax outputs: three probabilities that sum to 1.0
ProbTriples == {t \in (0..One) \X (0..One) \X (0..One) : t[1] + t[2] + t[3] = One}

\* A text is known by what the libraries compute from it: TextBlob's polarity,
\* the model's probabilities, whether it has any letters for langdetect, and how
\* many keywords of each emotion (joy, anger, sadness, surprise, fear) occur in it.
MkText(kind, polarity, probs, hits) ==
    [kind |-> kind, polarity |-> polarity, probs |-> probs, hits |-> hits]

\* Review.text of each stored review (Text, nullable=False)
ReviewText(r) ==
    CASE r = 1 -> MkText("words", 6, <<1, 2, 7>>, <<2, 0, 0, 0, 0>>)
      [] r = 2 -> MkText("empty", 0, <<3, 4, 3>>, <<0, 0, 0, 0, 0>>)
      [] OTHER -> MkText("words", -3, <<4, 4, 2>>, <<0, 1, 1, 0, 0>>)

\* langdetect.detect: a language code, or LangDetectException ("raise");
\* a text without letters has no features and always raises
DetectOutcomes(text) ==
    IF text.kind = "words" THEN {"ru", "en", "de", "raise"} ELSE {"raise"}

-----------------------------------------------------------------------------
(* SentimentAnalyzer, app/services/nlp/sentiment.py *)

\* what a call that raised "returns"
Raised ==
    [raised |-> TRUE, sentiment |-> None, confidence |-> 0, scores |-> <<>>,
     emotion_intensity |-> <<>>, branch |-> "raise"]

Result(sentiment, confidence, scores, emotion_intensity, branch) ==
    [raised |-> FALSE, sentiment |-> sentiment, confidence |-> confidence,
     scores |-> scores, emotion_intensity |-> emotion_intensity, branch |-> branch]

\* the environment of one analyze call: what langdetect answers, and whether the
\* model inference and TextBlob raise
Envs(text) ==
    [det : DetectOutcomes(text), primary_raises : BOOLEAN, fallback_raises : BOOLEAN]

\* __init__: load_ok is whether from_pretrained succeeded; "raise" when it did
\* not and fallback is off
SentimentAnalyzerInit(use_transformers, fallback, load_ok) ==
    IF use_transformers /\ ~load_ok
    THEN IF ~fallback THEN "raise"
         ELSE [use_transformers |-> FALSE, fallback |-> fallback, models |-> {}]
    ELSE [use_transformers |-> use_transformers, fallback |-> fallback,
          models |-> IF use_transformers THEN {"ru", "en"} ELSE {}]

\* every analyzer a successful construction yields
Analyzers ==
    {SentimentAnalyzerInit(a[1], a[2], a[3]) :
        a \in {b \in BOOLEAN \X BOOLEAN \X BOOLEAN : ~(b[1] /\ ~b[3] /\ ~b[2])}}

\* a detector whose except branch answers 'en'
_detect_language_default_en(text, det) ==
    IF det = "ru" THEN "ru" ELSE "en"

\* 'ru' if lang.startswith('ru') else 'en'; bare except: 'ru'
_detect_language(text, det) ==
    IF det = "raise" THEN "ru"
    ELSE IF det = "ru" THEN "ru" ELSE "en"

\* min(1.0, count * 0.2) per emotion, then v/total when total > 0 (in percent)
_calculate_emotion_intensity(text, language) ==
    LET raw == [i \in 1..5 |-> Min(One, text.hits[i] * 2)]
        total == raw[1] + raw[2] + raw[3] + raw[4] + raw[5]
    IN  IF total > 0 THEN [i \in 1..5 |-> (raw[i] * 100) \div total] ELSE raw

\* a maximum that keeps the last of the tied keys
DominantLast(probs) ==
    CHOOSE i \in 1..3 :
        /\ \A j \in 1..3 : probs[j] <= probs[i]
        /\ \A j \in (i + 1)..3 : probs[j] < probs[i]

\* max(sentiment_scores, key=sentiment_scores.get): the first key, in insertion
\* order negative, neutral, positive, whose value is the greatest
Dominant(probs) ==
    CHOOSE i \in 1..3 :
        /\ \A j \in 1..3 : probs[j] <= probs[i]
        /\ \A j \in 1..(i - 1) : probs[j] < probs[i]

\* the confidence without its cap at 1.0
FallbackConfidenceUncapped(polarity) ==
    IF polarity > Threshold THEN polarity + Half
    ELSE IF polarity < -Threshold THEN Abs(polarity) + Half
    ELSE Half

FallbackConfidence(polarity) ==
    IF polarity > Threshold THEN Min(One, polarity + Half)
    ELSE IF polarity < -Threshold THEN Min(One, Abs(polarity) + Half)
    ELSE Half

\* thresholds that include +-0.1
FallbackSentimentInclusive(polarity) ==
    IF polarity >= Threshold THEN "positive"
    ELSE IF polarity <= -Threshold THEN "negative"
    ELSE "neutral"

FallbackSentiment(polarity) ==
    IF polarity > Threshold THEN "positive"
    ELSE IF polarity < -Threshold THEN "negative"
    ELSE "neutral"

\* the fallback without its own except block
_analyze_with_fallback_unguarded(self, text, language, env) ==
    IF env.fallback_raises
    THEN Raised
    ELSE LET polarity == text.polarity
             sentiment == FallbackSentiment(polarity)
         IN  Result(sentiment, FallbackConfidence(polarity),
                    <<Max(0, -polarity),
                      IF sentiment = "neutral" THEN Half ELSE NeutralLow,
                      Max(0, polarity)>>,
                    <<>>, "fallback")

_analyze_with_fallback(self, text, language, env) ==
    IF env.fallback_raises
    THEN Result("neutral", Half, <<DefaultSide, DefaultMid, DefaultSide>>, <<>>, "default")
    ELSE LET polarity == text.polarity
             sentiment == FallbackSentiment(polarity)
         IN  Result(sentiment, FallbackConfidence(polarity),
                    <<Max(0, -polarity),
                      IF sentiment = "neutral" THEN Half ELSE NeutralLow,
                      Max(0, polarity)>>,
                    <<>>, "fallback")

_analyze_with_transformers(self, text, language, env) ==
    IF env.primary_raises
    THEN IF self.fallback THEN _analyze_with_fallback(self, text, language, env)
         ELSE Raised
    ELSE LET d == Dominant(text.probs)
         IN  Result(Labels[d], text.probs[d], text.probs,
                    _calculate_emotion_intensity(text, language), "transformers")

analyze(self, text, language, env) ==
    LET lang == IF language = None THEN _detect_language(text, env.det) ELSE language
    IN  IF self.use_transformers /\ lang \in self.models
        THEN _analyze_with_transformers(self, text, lang, env)
        ELSE _analyze_with_fallback(self, text, lang, env)

-----------------------------------------------------------------------------
(* The store: app/models/review.py, app/models/base.py *)

NoReview == [exists |-> FALSE, language |-> "NULL", is_deleted |-> FALSE]
NewReview == [exists |-> TRUE, language |-> "NULL", is_deleted |-> FALSE]

\* AnalysisResult(review_id=..., sentiment=..., confidence=...)
AnalysisResult(review_id, sentiment, confidence) ==
    [review_id |-> review_id, sentiment |-> sentiment, confidence |-> confidence]

NoResult == AnalysisResult(0, None, 0)

\* stores the model starts from: which of the ids have a Review row
Stores ==
    {[r \in ReviewIds |-> IF r \in S THEN NewReview ELSE NoReview] :
        S \in {{1}, {1, 3}}}

\* BaseModel.soft_delete, committed
soft_delete(review) == [review EXCEPT !.is_deleted = TRUE]

-----------------------------------------------------------------------------
(* ReviewAnalyzer.analyze_and_save, app/services/analysis.py *)

\* the stages of one call, in order
Stages == <<"fetch", "detect", "sentiment", "aspects", "key_phrases", "assemble", "commit">>

StageNo(s) == CHOOSE i \in 1..Len(Stages) : Stages[i] = s

\* the stages a call has entered when its furthest stage is s
StagesRun(s) == {Stages[i] : i \in 1..StageNo(s)}

\* the coroutine's locals are gone once it has ended
Ended(c, pc) ==
    [call[c] EXCEPT !.pc = pc, !.review = "unset", !.language = "NULL",
                    !.result = NoResult]

\* pc: idle, execute (awaiting db.execute), commit (awaiting db.commit),
\* rollback (awaiting db.rollback in the except block), returned, raised.
\* review: the local of that name, "unset" before the fetch answers, then
\* "None", or the fetched row as "live" or "deleted" (its is_deleted).
\* stage: the furthest stage entered; error: the except block was entered.
Idle == [pc |-> "idle", review_id |-> 0, review |-> "unset", stage |-> "fetch",
         error |-> FALSE, language |-> "NULL", result |-> NoResult]

Running(c) == call[c].pc \in {"execute", "commit", "rollback"}

\* a caller awaits analyze_and_save(review_id, db) on its own session
Call(c, review_id) ==
    /\ ~Running(c)
    /\ Len(results) + Cardinality({d \in Callers : Running(d)}) < MaxResults
    /\ call' = [call EXCEPT ![c] = [Idle EXCEPT !.pc = "execute", !.review_id = review_id]]
    /\ UNCHANGED <<batch, ax_in, ax_out, api, cfg, reviews, results, task, db_down, sa_in, sa_out>>

\* await db.execute(query) raises: control goes to the except block
FetchRaises(c) ==
    /\ call[c].pc = "execute"
    /\ call' = [call EXCEPT ![c].pc = "rollback", ![c].error = TRUE]
    /\ UNCHANGED <<batch, ax_in, ax_out, api, cfg, reviews, results, task, db_down, sa_in, sa_out>>

\* a fetch with scalar_one(): no row raises NoResultFound into the except block
FetchNotFoundRaises(c) ==
    /\ call[c].pc = "execute"
    /\ ~reviews[call[c].review_id].exists
    /\ call' = [call EXCEPT ![c].pc = "rollback", ![c].review = "None",
                            ![c].error = TRUE]
    /\ UNCHANGED <<batch, ax_in, ax_out, api, cfg, reviews, results, task, db_down, sa_in, sa_out>>

\* scalar_one_or_none() is None: log and return
FetchNotFound(c) ==
    /\ call[c].pc = "execute"
    /\ ~reviews[call[c].review_id].exists
    /\ call' = [call EXCEPT ![c].pc = "returned", ![c].review = "None"]
    /\ UNCHANGED <<batch, ax_in, ax_out, api, cfg, reviews, results, task, db_down, sa_in, sa_out>>

\* KeyPhraseExtractor.extract_key_phrases (app/services/nlp/phrases.py) recovers
\* from its own errors with an empty result and does not raise
KeyPhrasesRaise == FALSE

\* the stages between the fetch and the commit, which run without suspension.
\* _detect_language, extract_aspects and classify_aspect_sentiment catch every
\* exception, so the sentiment stage is the one that can raise here.
Pipeline(self, review_id, review, env) ==
    LET text == ReviewText(review_id)
        language == _detect_language(text, env.det)
        sentiment_result == analyze(self, text, language, env)
    IN  IF sentiment_result.raised
        THEN [Idle EXCEPT !.pc = "rollback", !.review_id = review_id,
                          !.review = review,
                          !.stage = "sentiment", !.error = TRUE,
                          !.language = language]
        ELSE IF KeyPhrasesRaise
        THEN [Idle EXCEPT !.pc = "rollback", !.review_id = review_id,
                          !.review = review,
                          !.stage = "key_phrases", !.error = TRUE,
                          !.language = language]
        ELSE [Idle EXCEPT !.pc = "commit", !.review_id = review_id,
                          !.review = review,
                          !.stage = "commit", !.language = language,
                          !.result = AnalysisResult(review_id,
                                                    sentiment_result.sentiment,
                                                    sentiment_result.confidence)]

\* the review is found: every stage up to db.add runs without suspension
FetchFound(c) ==
    /\ call[c].pc = "execute"
    /\ reviews[call[c].review_id].exists
    /\ \E env \in Envs(ReviewText(call[c].review_id)) :
          call' = [call EXCEPT ![c] =
                      Pipeline(cfg, call[c].review_id,
                               IF reviews[call[c].review_id].is_deleted
                               THEN "deleted" ELSE "live",
                               env)]
    /\ UNCHANGED <<batch, ax_in, ax_out, api, cfg, reviews, results, task, db_down, sa_in, sa_out>>

\* a flush that keeps one row per review: it overwrites the review's latest row
FlushUpsert(c) ==
    /\ reviews' = [reviews EXCEPT ![call[c].review_id].language = call[c].language]
    /\ results' =
          IF \E k \in 1..Len(results) : results[k].review_id = call[c].review_id
          THEN LET k == CHOOSE k \in 1..Len(results) :
                            results[k].review_id = call[c].review_id
               IN  [results EXCEPT ![k] = call[c].result]
          ELSE Append(results, call[c].result)

\* db.commit() flushes the session: the UPDATE of reviews.language and the
\* INSERT into analysis_results, in one transaction
Flush(c) ==
    /\ reviews' = [reviews EXCEPT ![call[c].review_id].language = call[c].language]
    /\ results' = Append(results, call[c].result)

CommitOk(c) ==
    /\ call[c].pc = "commit"
    /\ Flush(c)
    /\ call' = [call EXCEPT ![c] = Ended(c, "returned")]
    /\ UNCHANGED <<batch, ax_in, ax_out, api, cfg, task, db_down, sa_in, sa_out>>

CommitRaises(c) ==
    /\ call[c].pc = "commit"
    /\ call' = [call EXCEPT ![c].pc = "rollback", ![c].error = TRUE]
    /\ UNCHANGED <<batch, ax_in, ax_out, api, cfg, reviews, results, task, db_down, sa_in, sa_out>>

\* a rollback on a session shared by all callers: it drops their pending changes too
RollbackSharedSession(c) ==
    /\ call[c].pc = "rollback"
    /\ call' = [d \in Callers |->
                   IF d = c THEN Ended(c, "returned")
                   ELSE IF call[d].pc = "commit"
                        THEN [call[d] EXCEPT !.result = NoResult, !.language = "NULL"]
                        ELSE call[d]]
    /\ UNCHANGED <<batch, ax_in, ax_out, api, cfg, reviews, results, task, db_down, sa_in, sa_out>>

\* except Exception: log, await db.rollback(); the pending changes are dropped
RollbackOk(c) ==
    /\ call[c].pc = "rollback"
    /\ call' = [call EXCEPT ![c] = Ended(c, "returned")]
    /\ UNCHANGED <<batch, ax_in, ax_out, api, cfg, reviews, results, task, db_down, sa_in, sa_out>>

\* db.rollback() raises inside the except block: the exception leaves the call
RollbackRaises(c) ==
    /\ call[c].pc = "rollback"
    /\ call' = [call EXCEPT ![c] = Ended(c, "raised")]
    /\ UNCHANGED <<batch, ax_in, ax_out, api, cfg, reviews, results, task, db_down, sa_in, sa_out>>

\* some other transaction soft-deletes a review
SoftDelete(r) ==
    /\ reviews[r].exists
    /\ ~reviews[r].is_deleted
    /\ reviews' = [reviews EXCEPT ![r] = soft_delete(reviews[r])]
    /\ UNCHANGED <<batch, ax_in, ax_out, api, cfg, results, call, task, db_down, sa_in, sa_out>>

-----------------------------------------------------------------------------
(* Direct calls of SentimentAnalyzer.analyze *)

\* texts given to analyze: every polarity and every model output occurs
Polarities == (-One)..One

Texts ==
    {MkText(k, 0, t, <<0, 0, 0, 0, 0>>) : k \in {"empty", "blank", "words"}, t \in ProbTriples}
        \cup {MkText("words", p, <<3, 4, 3>>, <<1, 0, 2, 0, 0>>) : p \in Polarities}

Languages == {None, "ru", "en", "fr"}

AnalyzeInput(text, language, env) ==
    [called |-> FALSE, text |-> text, language |-> language, env |-> env]

NoAnalyze ==
    AnalyzeInput(ReviewText(2), None,
                 [det |-> "raise", primary_raises |-> FALSE, fallback_raises |-> FALSE])

\* the arguments and environment a direct call may meet
AnalyzeInputs ==
    UNION {{AnalyzeInput(text, language, env) : language \in Languages, env \in Envs(text)} :
              text \in Texts}

\* sentiment_analyzer.analyze(text, language)
AnalyzeCall ==
    /\ ~sa_in.called
    /\ sa_in' = [sa_in EXCEPT !.called = TRUE]
    /\ sa_out' = analyze(cfg, sa_in.text, sa_in.language, sa_in.env)
    /\ UNCHANGED <<batch, ax_in, ax_out, api, cfg, reviews, results, call, task, db_down>>

-----------------------------------------------------------------------------
(* Celery task analyze_review_batch, app/workers/tasks.py *)

\* status: none, queued (waiting for a worker), loop (in the for loop),
\* success (results returned), failure (the exception was re-raised for good)
NoTask ==
    [status |-> "none", review_ids |-> <<>>, retries |-> 0, i |-> 0,
     total |-> 0, processed |-> 0, failed |-> 0, failed_ids |-> <<>>]

BatchInputs == UNION {[1..n -> ReviewIds] : n \in 0..MaxBatchLen}

BatchStores ==
    {[r \in ReviewIds |-> IF r \in S THEN NewReview ELSE NoReview] : S \in SUBSET ReviewIds}

\* analyze_review_batch.delay(review_ids)
Submit(review_ids) ==
    /\ task.status = "none"
    /\ task' = [NoTask EXCEPT !.status = "queued", !.review_ids = review_ids]
    /\ UNCHANGED <<batch, ax_in, ax_out, api, cfg, reviews, results, call, db_down, sa_in, sa_out>>

\* a retry that counts the first execution against max_retries
retry_counts_first_run(request) ==
    IF request.retries + 1 >= max_retries
    THEN [NoTask EXCEPT !.status = "failure", !.review_ids = request.review_ids,
                        !.retries = request.retries]
    ELSE [NoTask EXCEPT !.status = "queued", !.review_ids = request.review_ids,
                        !.retries = request.retries + 1]

\* Task.retry: request.retries + 1 > max_retries re-raises exc, otherwise the
\* task is sent again with request.retries + 1
retry(request) ==
    IF request.retries + 1 > max_retries
    THEN [NoTask EXCEPT !.status = "failure", !.review_ids = request.review_ids,
                        !.retries = request.retries]
    ELSE [NoTask EXCEPT !.status = "queued", !.review_ids = request.review_ids,
                        !.retries = request.retries + 1]

\* a worker takes the task; SessionLocal() and ReviewAnalyzer() succeed and the
\* results dict is built
RunStart ==
    /\ task.status = "queued"
    /\ task' = [task EXCEPT !.status = "loop", !.i = 0, !.total = Len(task.review_ids),
                            !.processed = 0, !.failed = 0, !.failed_ids = <<>>]
    /\ UNCHANGED <<batch, ax_in, ax_out, api, cfg, reviews, results, call, db_down, sa_in, sa_out>>

\* a worker takes the task and the set-up raises: except Exception, self.retry
RunRaises ==
    /\ task.status = "queued"
    /\ task' = retry(task)
    /\ UNCHANGED <<batch, ax_in, ax_out, api, cfg, reviews, results, call, db_down, sa_in, sa_out>>

\* an iteration that forgets to count the review
IterationUncounted(t) ==
    [t EXCEPT !.i = t.i + 1]

\* an iteration that counts a review without a row as skipped, not as processed
IterationSkipsMissing(t) ==
    [t EXCEPT !.i = t.i + 1,
              !.processed = IF reviews[t.review_ids[t.i + 1]].exists
                            THEN t.processed + 1 ELSE t.processed]

\* one iteration of the for loop. analyze_and_save is an async def called from a
\* plain def without await: the call builds a coroutine object, runs none of its
\* body and cannot raise, so the except branch is never taken
Iteration(t) ==
    [t EXCEPT !.i = t.i + 1, !.processed = t.processed + 1]

LoopStep ==
    /\ task.status = "loop"
    /\ task.i < Len(task.review_ids)
    /\ task' = Iteration(task)
    /\ UNCHANGED <<batch, ax_in, ax_out, api, cfg, reviews, results, call, db_down, sa_in, sa_out>>

\* db.close(); return results
Return ==
    /\ task.status = "loop"
    /\ task.i = Len(task.review_ids)
    /\ task' = [task EXCEPT !.status = "success"]
    /\ UNCHANGED <<batch, ax_in, ax_out, api, cfg, reviews, results, call, db_down, sa_in, sa_out>>

-----------------------------------------------------------------------------
(* ReviewAnalyzer.analyze_batch, app/services/analysis.py *)

\* status: none, loop (in the for loop), returned, raised; i: ids taken so far
NoAnalyzeBatch == [status |-> "none", review_ids |-> <<>>, i |-> 0]

\* the coroutine analyze_batch runs in, with the session it was given
BatchCaller == "a"

\* await analyzer.analyze_batch(review_ids, db)
AnalyzeBatchCall(review_ids) ==
    /\ batch.status = "none"
    /\ batch' = [status |-> "loop", review_ids |-> review_ids, i |-> 0]
    /\ UNCHANGED <<cfg, reviews, results, call, task, db_down, sa_in, sa_out,
                   ax_in, ax_out, api>>

\* for review_id in review_ids: await self.analyze_and_save(review_id, db)
AnalyzeBatchIteration ==
    /\ batch.status = "loop"
    /\ call[BatchCaller].pc \in {"idle", "returned"}
    /\ batch.i < Len(batch.review_ids)
    /\ batch' = [batch EXCEPT !.i = batch.i + 1]
    /\ call' = [call EXCEPT ![BatchCaller] =
                   [Idle EXCEPT !.pc = "execute",
                                !.review_id = batch.review_ids[batch.i + 1]]]
    /\ UNCHANGED <<cfg, reviews, results, task, db_down, sa_in, sa_out,
                   ax_in, ax_out, api>>

\* the list is exhausted: analyze_batch returns
AnalyzeBatchReturn ==
    /\ batch.status = "loop"
    /\ call[BatchCaller].pc \in {"idle", "returned"}
    /\ batch.i = Len(batch.review_ids)
    /\ batch' = [batch EXCEPT !.status = "returned"]
    /\ UNCHANGED <<cfg, reviews, results, call, task, db_down, sa_in, sa_out,
                   ax_in, ax_out, api>>

\* an exception leaves the awaited analyze_and_save: the loop has no handler,
\* so it leaves analyze_batch as well
AnalyzeBatchRaises ==
    /\ batch.status = "loop"
    /\ call[BatchCaller].pc = "raised"
    /\ batch' = [batch EXCEPT !.status = "raised"]
    /\ UNCHANGED <<cfg, reviews, results, call, task, db_down, sa_in, sa_out,
                   ax_in, ax_out, api>>

-----------------------------------------------------------------------------
(* AspectExtractor.extract_aspects, app/services/nlp/aspects.py *)

\* the languages a matcher was built for in __init__
MatcherLanguages == {"ru", "en"}

\* texts of matched spans, and the sentences a span may lie in
SpanTexts == {"Price", "price", "delivery"}

Sentences == {"s1", "s2"}

\* str.lower()
lower(s) == IF s = "Price" THEN "price" ELSE s

AspectNames == {lower(s) : s \in SpanTexts}

\* aspects = {}: a key that is absent has no sentence
EmptyAspects == [a \in AspectNames |-> <<>>]

\* what matcher(doc) finds in a text, in document order
MatchLists ==
    UNION {[1..n -> [text : SpanTexts, sent : Sentences]] : n \in 0..MaxMatches}

\* the for loop from the k-th match on; fail is the match at which a step of
\* the loop body raises (0: none), which ends the loop in the except block
RECURSIVE RecordMatches(_, _, _, _)
RecordMatches(aspects, matches, k, fail) ==
    IF k > Len(matches) \/ k = fail
    THEN aspects
    ELSE LET aspect == lower(matches[k].text)
             sentence == matches[k].sent
         IN  RecordMatches([aspects EXCEPT ![aspect] = Append(@, sentence)],
                           matches, k + 1, fail)

\* an extractor that answers the empty mapping whenever a step failed
extract_aspects_cleared(matches, language, env) ==
    IF language \notin MatcherLanguages \/ env.nlp_raises \/ env.fail \in 1..Len(matches)
    THEN [raised |-> FALSE, aspects |-> EmptyAspects]
    ELSE [raised |-> FALSE, aspects |-> RecordMatches(EmptyAspects, matches, 1, 0)]

\* extract_aspects(text, language): the except block logs, then aspects is returned
extract_aspects(matches, language, env) ==
    IF language \notin MatcherLanguages \/ env.nlp_raises
    THEN [raised |-> FALSE, aspects |-> EmptyAspects]
    ELSE [raised |-> FALSE, aspects |-> RecordMatches(EmptyAspects, matches, 1, env.fail)]

\* an internal step of the call failed
AspectsFailed(in) ==
    \/ in.language \notin MatcherLanguages
    \/ in.env.nlp_raises
    \/ in.env.fail \in 1..Len(in.matches)

AspectsInput(matches, language, env) ==
    [called |-> FALSE, matches |-> matches, language |-> language, env |-> env]

NoAspects == AspectsInput(<<>>, "ru", [nlp_raises |-> FALSE, fail |-> 0])

NoAspectsOut == [raised |-> FALSE, aspects |-> EmptyAspects]

AspectsInputs ==
    {AspectsInput(matches, language, [nlp_raises |-> n, fail |-> f]) :
        matches \in MatchLists, language \in {"ru", "en", "fr"},
        n \in BOOLEAN, f \in 0..MaxMatches}

\* aspect_extractor.extract_aspects(text, language)
ExtractCall ==
    /\ ~ax_in.called
    /\ ax_in' = [ax_in EXCEPT !.called = TRUE]
    /\ ax_out' = extract_aspects(ax_in.matches, ax_in.language, ax_in.env)
    /\ UNCHANGED <<cfg, reviews, results, call, task, db_down, sa_in, sa_out,
                   batch, api>>

-----------------------------------------------------------------------------
(* The HTTP application, app/main.py *)

\* Limiter(key_func=get_remote_address): no default_limits are given
default_limits == {}

\* limits attached to the route POST /api/v1/reviews/
route_limits == {}

\* the limiter refuses the n-th request of a window when a limit is exceeded
RateLimitExceeded(n) == \E l \in default_limits \cup route_limits : n > l

\* the response to the n-th request of a client in one window; the middleware
\* add_rate_limit_headers sets X-RateLimit-Limit on it
Response(n) ==
    [status |-> IF RateLimitExceeded(n) THEN 429 ELSE 201,
     x_ratelimit_limit |-> API_RATE_LIMIT]

NoRequests == [sent |-> 0, response |-> [status |-> 0, x_ratelimit_limit |-> 0]]

\* client.post("/api/v1/reviews/", ...)
Post ==
    /\ api.sent < MaxRequests
    /\ api' = [sent |-> api.sent + 1, response |-> Response(api.sent + 1)]
    /\ UNCHANGED <<cfg, reviews, results, call, task, db_down, sa_in, sa_out,
                   batch, ax_in, ax_out>>

-----------------------------------------------------------------------------
(* Specifications *)

\* concurrent callers of analyze_and_save
Init ==
    /\ cfg \in Analyzers
    /\ reviews \in Stores
    /\ results = <<>>
    /\ call = [c \in Callers |-> Idle]
    /\ task = NoTask
    /\ db_down = {}
    /\ sa_in = NoAnalyze
    /\ sa_out = Raised
    /\ batch = NoAnalyzeBatch
    /\ ax_in = NoAspects
    /\ ax_out = NoAspectsOut
    /\ api = NoRequests

Next ==
    \/ \E c \in Callers, r \in ReviewIds : Call(c, r)
    \/ \E c \in Callers : FetchRaises(c)
    \/ \E c \in Callers : FetchNotFound(c)
    \/ \E c \in Callers : FetchFound(c)
    \/ \E c \in Callers : CommitOk(c)
    \/ \E c \in Callers : CommitRaises(c)
    \/ \E c \in Callers : RollbackOk(c)
    \/ \E c \in Callers : RollbackRaises(c)
    \/ \E r \in ReviewIds : SoftDelete(r)

Spec == Init /\ [][Next]_vars

\* one batch task, from submission to its end
InitBatch ==
    /\ cfg = SentimentAnalyzerInit(TRUE, TRUE, TRUE)
    /\ reviews \in BatchStores
    /\ results = <<>>
    /\ call = [c \in Callers |-> Idle]
    /\ task = NoTask
    /\ db_down \in SUBSET ReviewIds
    /\ sa_in = NoAnalyze
    /\ sa_out = Raised
    /\ batch = NoAnalyzeBatch
    /\ ax_in = NoAspects
    /\ ax_out = NoAspectsOut
    /\ api = NoRequests

NextBatch ==
    \/ \E review_ids \in BatchInputs : Submit(review_ids)
    \/ RunStart
    \/ RunRaises
    \/ LoopStep
    \/ Return

SpecBatch == InitBatch /\ [][NextBatch]_vars

\* direct calls of the classifier
InitSentiment ==
    /\ cfg \in Analyzers
    /\ reviews = [r \in ReviewIds |-> NoReview]
    /\ results = <<>>
    /\ call = [c \in Callers |-> Idle]
    /\ task = NoTask
    /\ db_down = {}
    /\ sa_in \in AnalyzeInputs
    /\ sa_out = Raised
    /\ batch = NoAnalyzeBatch
    /\ ax_in = NoAspects
    /\ ax_out = NoAspectsOut
    /\ api = NoRequests

NextSentiment == AnalyzeCall

SpecSentiment == InitSentiment /\ [][NextSentiment]_vars

\* one analyze_batch call on one session
InitAnalyzeBatch ==
    /\ cfg \in Analyzers
    /\ reviews \in Stores
    /\ results = <<>>
    /\ call = [c \in Callers |-> Idle]
    /\ task = NoTask
    /\ db_down = {}
    /\ sa_in = NoAnalyze
    /\ sa_out = Raised
    /\ batch = NoAnalyzeBatch
    /\ ax_in = NoAspects
    /\ ax_out = NoAspectsOut
    /\ api = NoRequests

NextAnalyzeBatch ==
    \/ \E review_ids \in BatchInputs : AnalyzeBatchCall(review_ids)
    \/ AnalyzeBatchIteration
    \/ AnalyzeBatchReturn
    \/ AnalyzeBatchRaises
    \/ FetchRaises(BatchCaller)
    \/ FetchNotFound(BatchCaller)
    \/ FetchFound(BatchCaller)
    \/ CommitOk(BatchCaller)
    \/ CommitRaises(BatchCaller)
    \/ RollbackOk(BatchCaller)
    \/ RollbackRaises(BatchCaller)

SpecAnalyzeBatch == InitAnalyzeBatch /\ [][NextAnalyzeBatch]_vars

\* direct calls of the aspect extractor
InitAspects ==
    /\ cfg = SentimentAnalyzerInit(TRUE, TRUE, TRUE)
    /\ reviews = [r \in ReviewIds |-> NoReview]
    /\ results = <<>>
    /\ call = [c \in Callers |-> Idle]
    /\ task = NoTask
    /\ db_down = {}
    /\ sa_in = NoAnalyze
    /\ sa_out = Raised
    /\ batch = NoAnalyzeBatch
    /\ ax_in \in AspectsInputs
    /\ ax_out = NoAspectsOut
    /\ api = NoRequests

NextAspects == ExtractCall

SpecAspects == InitAspects /\ [][NextAspects]_vars

\* one client posting reviews within one rate-limit window
InitApi ==
    /\ cfg = SentimentAnalyzerInit(TRUE, TRUE, TRUE)
    /\ reviews = [r \in ReviewIds |-> NoReview]
    /\ results = <<>>
    /\ call = [c \in Callers |-> Idle]
    /\ task = NoTask
    /\ db_down = {}
    /\ sa_in = NoAnalyze
    /\ sa_out = Raised
    /\ batch = NoAnalyzeBatch
    /\ ax_in = NoAspects
    /\ ax_out = NoAspectsOut
    /\ api = NoRequests

NextApi == Post

SpecApi == InitApi /\ [][NextApi]_vars

-----------------------------------------------------------------------------
(* Properties *)

IsPrefix(s, t) == Len(s) <= Len(t) /\ SubSeq(t, 1, Len(s)) = s

\* number of analysis_results rows of review r
RowsOf(rows, r) == Cardinality({k \in 1..Len(rows) : rows[k].review_id = r})

\* the step in which caller c's analyze_and_save ends
Ends(c) == Running(c) /\ ~Running(c)'

\* the step in which caller c's db.commit() succeeds
Commits(c) == call[c].pc = "commit" /\ call'[c].pc = "returned"

\* C1: every step of a call either leaves analysis_results unchanged or is the
\* call's successful commit, which ends the call and appends exactly one row,
\* for the call's review, with sentiment positive/negative/neutral and
\* confidence in [0,1]; so no call adds two rows or an out-of-range row.
C1_OneValidRowOrNone ==
    [][\/ results' = results
       \/ \E c \in Callers :
            /\ Commits(c)
            /\ Len(results') = Len(results) + 1
            /\ IsPrefix(results, results')
            /\ LET row == results'[Len(results')]
               IN  /\ row.review_id = call[c].review_id
                   /\ row.sentiment \in Sentiments
                   /\ row.confidence \in 0..One]_vars

\* a call on review 1 took the fallback path (confidence at its cap) and committed
C1_Witness ==
    \E c \in Callers :
        /\ call[c].pc = "returned" /\ ~call[c].error /\ call[c].stage = "commit"
        /\ call[c].review_id = 1
        /\ Len(results) >= 1
        /\ results[Len(results)] = AnalysisResult(1, "positive", One)

\* C2: with fallback enabled, analyze returns a result and does not raise,
\* whatever the text, the language argument, and the failures of language
\* detection, of the model path and of the fallback heuristic.
C2_AnalyzeNeverRaises ==
    (sa_in.called /\ cfg.fallback) =>
        (~sa_out.raised /\ sa_out.sentiment \in Sentiments)

\* the empty text, language omitted, model path and TextBlob both raising
C2_Witness ==
    /\ sa_in.called /\ cfg.fallback /\ cfg.use_transformers
    /\ sa_in.text.kind = "empty" /\ sa_in.language = None
    /\ sa_in.env.primary_raises /\ sa_in.env.fallback_raises
    /\ ~sa_out.raised

\* C3: in the loop processed + failed is the number of ids handled so far, and
\* the returned dict has processed + failed = total = len(review_ids) and
\* len(failed_ids) = failed.
C3_BatchCounts ==
    /\ task.status = "loop" =>
          /\ task.processed + task.failed = task.i
          /\ Len(task.failed_ids) = task.failed
          /\ task.total = Len(task.review_ids)
    /\ task.status = "success" =>
          /\ task.processed + task.failed = task.total
          /\ task.total = Len(task.review_ids)
          /\ Len(task.failed_ids) = task.failed

\* a batch of MaxBatchLen ids, one of them on a failing database, has returned
C3_Witness ==
    /\ task.status = "success"
    /\ Len(task.review_ids) >= 3
    /\ \E k \in 1..Len(task.review_ids) : task.review_ids[k] \in db_down

Batch123 ==
    /\ task.status = "success"
    /\ task.review_ids = <<1, 2, 3>>
    /\ reviews[1].exists /\ ~reviews[2].exists /\ reviews[3].exists

\* C4 as stated: the batch [1,2,3] with review 2 missing returns processed=2.
C4_Original ==
    Batch123 =>
        /\ task.total = 3 /\ task.processed = 2
        /\ task.failed = 0 /\ task.failed_ids = <<>>

\* C4, amended: the batch [1,2,3] with reviews 1 and 3 present and review 2
\* missing returns total=3, processed=3, failed=0, failed_ids=[]: the missing
\* review is counted as processed.
C4_MissingCountsAsProcessed ==
    Batch123 =>
        /\ task.total = 3 /\ task.processed = 3
        /\ task.failed = 0 /\ task.failed_ids = <<>>

C4_Witness == Batch123 /\ task.retries = 0

\* C5: when a step after the fetch raises, the call returns normally and the
\* store is as before: the step that ends a call whose except block was entered
\* returns, and changes neither reviews nor analysis_results; the language of a
\* review changes only in a step that also inserts the result.
C5_FailureIsSilentAndAtomic ==
    [][/\ \A c \in Callers :
            (Ends(c) /\ call'[c].error /\ call[c].review \notin {"unset", "None"}) =>
                /\ call'[c].pc = "returned"
                /\ UNCHANGED <<reviews, results>>
       /\ (\E r \in ReviewIds : reviews'[r].language # reviews[r].language) =>
                Len(results') = Len(results) + 1]_vars

\* C6: when the fetch finds no Review, the call returns without an error; it
\* has entered no stage but the fetch, and reviews and analysis_results are
\* unchanged.
C6_NotFoundIsNoOp ==
    [][\A c \in Callers :
          (call[c].pc = "execute" /\ call'[c].review = "None") =>
              /\ call'[c].pc = "returned"
              /\ ~call'[c].error
              /\ StagesRun(call'[c].stage) = {"fetch"}
              /\ UNCHANGED <<reviews, results>>]_vars

\* a call on the missing review 2 has returned; nothing was stored
C6_Witness ==
    \E c \in Callers :
        /\ call[c].pc = "returned" /\ call[c].review = "None"
        /\ call[c].review_id = 2 /\ ~reviews[2].exists
        /\ RowsOf(results, 2) = 0

\* C7 as stated: every call on an existing review adds exactly one row of that
\* review.
C7_Original ==
    [][\A c \in Callers :
          (Ends(c) /\ reviews[call[c].review_id].exists) =>
              RowsOf(results', call[c].review_id) =
                  RowsOf(results, call[c].review_id) + 1]_vars

\* C7, amended: results are append-only and not deduplicated: a call on an
\* existing review that ends without an exception appends exactly one row of
\* that review, also when the review already has rows; a call in which a step
\* raised appends none; no step changes or removes a row.
C7_AppendOnly ==
    [][/\ IsPrefix(results, results')
       /\ \A c \in Callers :
            (Ends(c) /\ reviews[call[c].review_id].exists) =>
                IF call'[c].error
                THEN results' = results
                ELSE /\ results' = Append(results, call[c].result)
                     /\ RowsOf(results', call[c].review_id) =
                            RowsOf(results, call[c].review_id) + 1]_vars

\* two calls on review 1 have left two rows of review 1
C7_Witness ==
    /\ Len(results) = 2
    /\ results[1].review_id = 1 /\ results[2].review_id = 1

\* C8: in the returned dict every id whose fetch or commit fails is in
\* failed_ids and counted in failed, not in processed.
C8_PersistenceErrorCounted ==
    task.status = "success" =>
        LET bad == {k \in 1..Len(task.review_ids) : task.review_ids[k] \in db_down}
        IN  /\ task.failed = Cardinality(bad)
            /\ \A k \in bad : \E j \in 1..Len(task.failed_ids) :
                                  task.failed_ids[j] = task.review_ids[k]
            /\ task.processed = Len(task.review_ids) - Cardinality(bad)

\* C9 as stated: one submitted batch is executed at most 3 times.
C9_Original ==
    task.status \in {"loop", "success", "failure"} => task.retries + 1 <= 3

\* C9, amended: a systemic failure re-runs the whole batch, at most max_retries
\* = 3 times, so one submitted batch is executed at most 4 times; the batch
\* ends as failed exactly when its 4th execution fails; after that, and after a
\* run that returned a result, nothing is run again.
C9_RetryBudget ==
    [][/\ task'.retries <= max_retries
       /\ task.status \in {"success", "failure"} => task' = task
       /\ task'.status = "failure" =>
            (task.status = "queued" /\ task.retries = max_retries)
       /\ (task.status = "queued" /\ task'.status = "queued") =>
            (task'.retries = task.retries + 1 /\ task'.review_ids = task.review_ids)
       /\ task.status = "loop" => task'.status \in {"loop", "success"}]_vars

\* the 4th execution of a batch has failed
C9_Witness ==
    task.status = "failure" /\ task.retries = 3 /\ Len(task.review_ids) > 0

\* C10: a result is committed only for a review that was fetched not
\* soft-deleted.
C10_NoResultForDeletedReview ==
    [][\A c \in Callers : Commits(c) => call[c].review = "live"]_vars

\* C11 as stated: for the empty text detection returns "ru" and analyze returns
\* neutral, 0.5, {0.3, 0.4, 0.3} and no emotions from the default branch.
C11_Original ==
    (sa_in.called /\ sa_in.text.kind = "empty" /\ sa_in.language = None) =>
        /\ _detect_language(sa_in.text, sa_in.env.det) = "ru"
        /\ sa_out = Result("neutral", Half, <<DefaultSide, DefaultMid, DefaultSide>>,
                           <<>>, "default")

\* C11: for the empty text detection returns "ru"; when analyze does not answer
\* from the model it returns neutral, 0.5 and no emotions, with scores
\* {0, 0.5, 0} from the ordinary fallback branch (the polarity of "" is 0), and
\* {0.3, 0.4, 0.3} from the default branch only when the heuristic itself raises.
C11_EmptyText ==
    (sa_in.called /\ sa_in.text.kind = "empty" /\ sa_in.language = None) =>
        /\ _detect_language(sa_in.text, sa_in.env.det) = "ru"
        /\ sa_out.branch \in {"fallback", "default"} =>
              /\ sa_out.sentiment = "neutral"
              /\ sa_out.confidence = Half
              /\ sa_out.emotion_intensity = <<>>
              /\ sa_out.branch = "default" <=> sa_in.env.fallback_raises
              /\ sa_out.scores = IF sa_in.env.fallback_raises
                                 THEN <<DefaultSide, DefaultMid, DefaultSide>>
                                 ELSE <<0, Half, 0>>

\* the empty text on an analyzer without models, TextBlob answering
C11_Witness ==
    /\ sa_in.called /\ sa_in.text.kind = "empty" /\ sa_in.language = None
    /\ ~cfg.use_transformers /\ ~sa_in.env.fallback_raises
    /\ sa_out = Result("neutral", Half, <<0, Half, 0>>, <<>>, "fallback")

\* C12: a review's language is written once: after it has a value no call of
\* analyze_and_save writes another value to it.
C12_LanguageSetOnce ==
    [][\A r \in ReviewIds :
          reviews[r].language # "NULL" => reviews'[r].language = reviews[r].language]_vars

\* C13: once a client has sent more than API_RATE_LIMIT requests in one window,
\* the response to its latest request has status 429.
C13_LimitEnforced ==
    api.sent > API_RATE_LIMIT => api.response.status = 429

\* C14: when the batch task returns, every id of the list that refers to an
\* existing review whose analysis cannot fail has one new analysis_results row
\* per occurrence in the list.
C14_BatchPersistsResults ==
    task.status = "success" =>
        \A r \in ReviewIds :
            (reviews[r].exists /\ r \notin db_down) =>
                RowsOf(results, r) =
                    Cardinality({k \in 1..Len(task.review_ids) : task.review_ids[k] = r})

\* C15: analyze_batch ends by returning, after it has called analyze_and_save
\* for every id of the list, whatever failed on the way.
C15_BatchNeverShortCircuits ==
    batch.status \notin {"none", "loop"} =>
        /\ batch.status = "returned"
        /\ batch.i = Len(batch.review_ids)

\* the step in which caller c's db.rollback() ends, returning or raising
RollsBack(c) == call[c].pc = "rollback" /\ call'[c].pc # "rollback"

\* C16: in every interleaving of concurrent calls a step of one call leaves
\* the other calls' pending work as it was; a rollback changes no committed
\* row; a commit adds the committing call's own row and nothing else, so the
\* rows added by a step number the calls that commit in it, also when the
\* calls analyse the same review; and a call waiting for its commit can
\* always commit.
C16_IsolatedTransactions ==
    /\ [](\A d \in Callers : call[d].pc = "commit" => ENABLED CommitOk(d))
    /\ [][/\ \A c \in Callers :
                call'[c] # call[c] => \A d \in Callers \ {c} : call'[d] = call[d]
          /\ \A c \in Callers : RollsBack(c) => UNCHANGED <<reviews, results>>
          /\ \A c \in Callers :
                Commits(c) =>
                    /\ results' = Append(results, call[c].result)
                    /\ call[c].result.review_id = call[c].review_id
                    /\ \A r \in ReviewIds \ {call[c].review_id} : reviews'[r] = reviews[r]
          /\ Len(results') - Len(results) =
                Cardinality({c \in Callers : Commits(c)})]_vars

\* both callers analysed review 1 at the same time: b has committed its row,
\* a has failed and is rolling back
C16_Witness ==
    /\ call["a"].pc = "rollback" /\ call["a"].review_id = 1
    /\ call["b"].pc = "returned" /\ call["b"].review_id = 1 /\ ~call["b"].error
    /\ call["b"].stage = "commit"
    /\ Len(results) = 1 /\ results[1].review_id = 1

\* C17: on the fallback branch of a text with polarity p: p > 0.1 gives
\* positive with confidence min(1, p + 0.5), p < -0.1 gives negative with
\* confidence min(1, |p| + 0.5), anything else neutral with confidence 0.5;
\* the scores are max(0, -p), 0.5 for neutral and 0.2 otherwise, max(0, p);
\* so every score is >= 0, the confidence lies in [0.5, 1] and there are no
\* emotion intensities.
C17_FallbackNumbers ==
    (sa_in.called /\ sa_out.branch = "fallback") =>
        LET p == sa_in.text.polarity
            absp == IF p < 0 THEN 0 - p ELSE p
            capped == IF absp + 5 > 10 THEN 10 ELSE absp + 5
        IN  /\ p > 1 => (sa_out.sentiment = "positive" /\ sa_out.confidence = capped)
            /\ p < -1 => (sa_out.sentiment = "negative" /\ sa_out.confidence = capped)
            /\ (p >= -1 /\ p <= 1) =>
                  (sa_out.sentiment = "neutral" /\ sa_out.confidence = 5)
            /\ sa_out.scores[1] = (IF p < 0 THEN 0 - p ELSE 0)
            /\ sa_out.scores[2] = (IF sa_out.sentiment = "neutral" THEN 5 ELSE 2)
            /\ sa_out.scores[3] = (IF p > 0 THEN p ELSE 0)
            /\ \A k \in 1..3 : sa_out.scores[k] >= 0
            /\ sa_out.confidence \in 5..10
            /\ sa_out.emotion_intensity = <<>>

\* polarity exactly 0.1 stays neutral, on an analyzer without models
C17_Witness ==
    /\ sa_in.called /\ sa_out.branch = "fallback"
    /\ sa_in.text.polarity = Threshold
    /\ sa_out.sentiment = "neutral" /\ sa_out.scores = <<0, Half, Threshold>>

\* C18 as stated: on the model path the sentiment has the greatest probability
\* and the confidence is that probability; among tied labels neutral wins,
\* otherwise the first in the order negative, neutral, positive.
C18_Original ==
    (sa_in.called /\ sa_out.branch = "transformers") =>
        LET probs == sa_in.text.probs
            top == {k \in 1..3 : \A j \in 1..3 : probs[j] <= probs[k]}
            pick == IF 2 \in top THEN 2 ELSE CHOOSE k \in top : \A j \in top : k <= j
        IN  /\ sa_out.sentiment = Labels[pick]
            /\ sa_out.confidence = probs[pick]

\* C18: on the model path the sentiment has the greatest probability and the
\* confidence is that probability; among tied labels the first in the order
\* negative, neutral, positive wins, so negative wins a tie with neutral.
C18_FirstMaximum ==
    (sa_in.called /\ sa_out.branch = "transformers") =>
        LET probs == sa_in.text.probs
            top == {k \in 1..3 : \A j \in 1..3 : probs[j] <= probs[k]}
            pick == CHOOSE k \in top : \A j \in top : k <= j
        IN  /\ sa_out.sentiment = Labels[pick]
            /\ sa_out.confidence = probs[pick]

\* negative and neutral tie at 0.5: the model path answers negative
C18_Witness ==
    /\ sa_in.called /\ sa_out.branch = "transformers"
    /\ sa_in.text.probs = <<5, 5, 0>>
    /\ sa_out.sentiment = "negative" /\ sa_out.confidence = 5

\* the sentences of the first n matches whose lower-cased text is a, in match order
SentencesOf(matches, n, a) ==
    LET sel == SelectSeq(SubSeq(matches, 1, n), LAMBDA m : lower(m.text) = a)
    IN  [k \in 1..Len(sel) |-> sel[k].sent]

\* C19 as stated: extract_aspects does not raise; when a step failed it returns
\* the empty mapping; otherwise each lower-cased matched token maps to the
\* sentences of its matches, in match order.
C19_Original ==
    ax_in.called =>
        /\ ~ax_out.raised
        /\ \A a \in AspectNames :
              ax_out.aspects[a] =
                  IF AspectsFailed(ax_in) THEN <<>>
                  ELSE SentencesOf(ax_in.matches, Len(ax_in.matches), a)

\* C19: extract_aspects does not raise; a failure before the first match
\* (unknown language key, NLP processing error) gives the empty mapping; a
\* failure at a later match gives the mapping of the matches recorded before
\* it; without failure each lower-cased matched token maps to the sentences of
\* its matches, in match order.
C19_BestEffort ==
    ax_in.called =>
        LET n == IF ax_in.language \notin {"ru", "en"} \/ ax_in.env.nlp_raises THEN 0
                 ELSE IF ax_in.env.fail \in 1..Len(ax_in.matches) THEN ax_in.env.fail - 1
                 ELSE Len(ax_in.matches)
        IN  /\ ~ax_out.raised
            /\ \A a \in AspectNames : ax_out.aspects[a] = SentencesOf(ax_in.matches, n, a)

\* the sentence of the second match cannot be resolved: the first match stays
C19_Witness ==
    /\ ax_in.called /\ ax_in.language = "en" /\ ~ax_in.env.nlp_raises
    /\ ax_in.matches = <<[text |-> "Price", sent |-> "s1"], [text |-> "delivery", sent |-> "s2"]>>
    /\ ax_in.env.fail = 2
    /\ ax_out.aspects["price"] = <<"s1">> /\ ax_out.aspects["delivery"] = <<>>

====
